---- MODULE Spec2Model ----
(***************************************************************************)
(* A model of lmdbm.Lmdb (src/lmdbm/lmdbm.py): a MutableMapping over one   *)
(* lmdb environment.  The environment (the engine) is modelled by what the *)
(* adapter relies on: serialised write transactions that commit or abort   *)
(* as a whole, snapshot read transactions, a map size that set_mapsize     *)
(* replaces, and MapFullError raised from inside a write transaction.      *)
(*                                                                         *)
(* Sizes are counted in MiB: the default map_size=2**20 is 1.              *)
(***************************************************************************)
EXTENDS Integers, Sequences, FiniteSets, TLC

\* ---------------------------------------------------------------- bounds
NumVals == 2
\* Calls made by one client in one run.
MaxCalls == 2
\* The engine stops raising MapFullError once the map has been doubled this
\* many times over InitMapSize.
MaxGrowth == 12
\* Doublings left to the engine for the calls made inside a with-block.
ScopeGrowth == 1
\* Doublings left to the engine when two threads share the handle.
ThreadGrowth == 2
\* Doublings left to the engine while passes over the store are made.
IterGrowth == 1
\* Generator objects created by keys()/values()/items() in one run.
NumIters == 2

\* ------------------------------------------------------- program constants
\* open(..., map_size=2**20), in MiB
InitMapSize == 1
\* for i in range(12)
MaxAttempts == 12

Keys == {1, 2}
Vals == 1..NumVals
\* Python's None: txn.get / txn.pop of an absent key, pop's default default.
NoVal == 0
Threads == {"t1", "t2"}
IterIds == 1..NumIters

RECURSIVE Pow2(_)
Pow2(n) == IF n = 0 THEN 1 ELSE 2 * Pow2(n - 1)

MaxMapSize == InitMapSize * Pow2(MaxGrowth)

\* The sub-database: key -> value, NoVal where the key is absent.
Stores == [Keys -> Vals \cup {NoVal}]
EmptyStore == [k \in Keys |-> NoVal]
Entries(s) == {k \in Keys : s[k] # NoVal}

VARIABLES
  store,         \* committed contents of the sub-database
  map_size,      \* env.info()["map_size"]
  closed,        \* env.close() has released the environment
  closes,        \* number of times Lmdb.close() has run
  wtxn,          \* the thread holding the engine's write transaction, or "none"
  pc,            \* per thread: where it is in the method it runs
  call,          \* per thread: the method call in progress, with its arguments
  i,             \* per thread: the loop variable of range(12)
  new_map_size,  \* per thread: the local of the except block
  consumed,      \* per thread: update's source iterator has been iterated
  pre,           \* per thread: the store when the call in progress was made
  script,        \* per thread: the calls the client still makes
  rets,          \* per thread: outcome and value of each call made so far
  propagated,    \* the exception that left the with-block, or "none"
  iters          \* generator objects returned by keys()/values()/items()

vars == <<store, map_size, closed, closes, wtxn, pc, call, i, new_map_size,
          consumed, pre, script, rets, propagated, iters>>

\* ------------------------------------------------------------- transforms
pre_key(key) == key
post_key(key) == key
pre_value(value) == value
post_value(value) == value

\* ------------------------------------------------------------------ calls
Mk(op, k, v, shape, src, kw) ==
  [op |-> op, key |-> k, val |-> v, shape |-> shape, src |-> src, kw |-> kw]

NoCall == Mk("none", 0, NoVal, "-", EmptyStore, EmptyStore)
SetCalls == {Mk("set", k, v, "-", EmptyStore, EmptyStore) : k \in Keys, v \in Vals}
GetCalls == {Mk("get", k, NoVal, "-", EmptyStore, EmptyStore) : k \in Keys}
LenCalls == {Mk("len", 0, NoVal, "-", EmptyStore, EmptyStore)}
DelCalls == {Mk("del", k, NoVal, "-", EmptyStore, EmptyStore) : k \in Keys}
\* pop(key, default): val carries the default
PopCalls == {Mk("pop", k, d, "-", EmptyStore, EmptyStore) : k \in Keys, d \in Vals \cup {NoVal}}
CloseCalls == {Mk("close", 0, NoVal, "-", EmptyStore, EmptyStore)}
\* update(source, **kwds): src and kw map each key to its value, NoVal where
\* the key is not given; shape is the branch of update the source takes:
\* a Mapping, an object with keys(), a re-iterable of pairs (a list), or an
\* iterator of pairs that can be consumed once (a generator).
Shapes == {"mapping", "keys", "pairs", "oneshot"}
UpdateCalls == {Mk("update", 0, NoVal, sh, s, kw) : sh \in Shapes, s \in Stores, kw \in Stores}

WriteOps == {"set", "update", "del", "pop"}

RECURSIVE SeqsUpTo(_, _)
SeqsUpTo(S, n) ==
  IF n = 0 THEN {<<>>}
  ELSE LET shorter == SeqsUpTo(S, n - 1)
       IN  shorter \cup {Append(q, x) : q \in {r \in shorter : Len(r) = n - 1}, x \in S}

\* One entry of a client's record: the call, how it ended, what it returned.
Ret(c, out, v) == [call |-> c, out |-> out, val |-> v]

\* ---------------------------------------------------------------- engine
\* txn.put(k, v) / curs.putmulti(pairs): later pairs overwrite earlier ones.
\* (PutKeepsOld: a put that leaves an existing key alone, overwrite=False.)
PutKeepsOld(s, k, v) == IF s[k] = NoVal THEN [s EXCEPT ![k] = v] ELSE s
Put(s, k, v) == [s EXCEPT ![k] = v]
PutMulti(s, m) == [k \in Keys |-> IF m[k] # NoVal THEN m[k] ELSE s[k]]
\* txn.delete(k)
Delete(s, k) == [s EXCEPT ![k] = NoVal]
\* txn.stat()["entries"]
StatEntries(s) == Cardinality(Entries(s))

\* The pairs update() hands to the engine in one attempt: the source's, read
\* again on every attempt (an iterator that was consumed gives nothing), then
\* the keyword pairs on top.
SourcePairs(c, used) ==
  IF c.shape = "oneshot" /\ used THEN EmptyStore
  ELSE [k \in Keys |-> IF c.src[k] = NoVal THEN NoVal ELSE pre_value(c.src[k])]
KwPairs(c) == [k \in Keys |-> IF c.kw[k] = NoVal THEN NoVal ELSE pre_value(c.kw[k])]

\* Whether the write of call c touches a page at all: a transaction that
\* writes nothing allocates nothing and cannot run out of space.
Touches(c, s, used) ==
  CASE c.op = "set" -> TRUE
    [] c.op = "update" -> Entries(SourcePairs(c, used)) \cup Entries(KwPairs(c)) # {}
    [] c.op \in {"del", "pop"} -> s[pre_key(c.key)] # NoVal
    [] OTHER -> FALSE

\* The engine may answer a write with MapFullError while the map is below
\* MaxMapSize.
MayBeFull == map_size < MaxMapSize

\* ------------------------------------------------------------ bookkeeping
Return(t, out, v) ==
  /\ rets' = [rets EXCEPT ![t] = Append(@, Ret(call[t], out, v))]
  /\ script' = [script EXCEPT ![t] = Tail(@)]
  /\ pc' = [pc EXCEPT ![t] = "idle"]

Raise(t, err) ==
  /\ rets' = [rets EXCEPT ![t] = Append(@, Ret(call[t], err, NoVal))]
  /\ script' = [script EXCEPT ![t] = Tail(@)]
  /\ pc' = [pc EXCEPT ![t] = "raised"]

\* The client calls the next method of its script.
Invoke(t) ==
  /\ pc[t] = "idle"
  /\ script[t] # <<>>
  /\ call' = [call EXCEPT ![t] = Head(script[t])]
  /\ pre' = [pre EXCEPT ![t] = store]
  /\ i' = [i EXCEPT ![t] = 0]
  /\ consumed' = [consumed EXCEPT ![t] = FALSE]
  /\ pc' = [pc EXCEPT ![t] =
              IF Head(script[t]).op \in WriteOps THEN "begin" ELSE Head(script[t]).op]
  /\ UNCHANGED <<store, map_size, closed, closes, wtxn, new_map_size, script,
                 rets, propagated, iters>>

\* Lmdb.__getitem__
getitem(t) ==
  /\ pc[t] = "get"
  /\ IF closed THEN Raise(t, "Error")
     ELSE LET value == store[pre_key(call[t].key)]
          IN  IF value = NoVal THEN Raise(t, "KeyError")
              ELSE Return(t, "ok", post_value(value))
  /\ UNCHANGED <<store, map_size, closed, closes, wtxn, call, i, new_map_size,
                 consumed, pre, propagated, iters>>

\* Lmdb.__len__
len(t) ==
  /\ pc[t] = "len"
  /\ IF closed THEN Raise(t, "Error")
     ELSE Return(t, "ok", StatEntries(store))
  /\ UNCHANGED <<store, map_size, closed, closes, wtxn, call, i, new_map_size,
                 consumed, pre, propagated, iters>>

\* self.env.begin(write=True): the engine admits one write transaction at a
\* time; a second writer waits.
begin_write(t) ==
  /\ pc[t] = "begin"
  /\ IF closed
     THEN /\ Raise(t, "Error")
          /\ UNCHANGED wtxn
     ELSE /\ wtxn = "none"
          /\ wtxn' = t
          /\ pc' = [pc EXCEPT ![t] = "txn"]
          /\ UNCHANGED <<rets, script>>
  /\ UNCHANGED <<store, map_size, closed, closes, call, i, new_map_size,
                 consumed, pre, propagated, iters>>

\* The body of the with-block of a write method, and the commit on leaving it.
\* The store after the write transaction of call c commits.
Written(c, s, used) ==
  CASE c.op = "set" -> Put(s, pre_key(c.key), pre_value(c.val))
    [] c.op = "update" -> PutMulti(PutMulti(s, SourcePairs(c, used)), KwPairs(c))
    [] c.op \in {"del", "pop"} -> Delete(s, pre_key(c.key))
    [] OTHER -> s

\* What the method returns after its transaction committed.
Result(c, s) ==
  IF c.op = "pop"
  THEN LET value == s[pre_key(c.key)]
       IN  IF value = NoVal THEN c.val ELSE post_value(value)
  ELSE NoVal

commit(t) ==
  /\ pc[t] = "txn"
  /\ store' = Written(call[t], store, consumed[t])
  /\ wtxn' = "none"
  /\ consumed' = [consumed EXCEPT ![t] = @ \/ call[t].op = "update"]
  /\ Return(t, "ok", Result(call[t], store))
  /\ UNCHANGED <<map_size, closed, closes, call, i, new_map_size, pre,
                 propagated, iters>>

\* Whether the method of call c catches lmdb.MapFullError.
Catches(c) == c.op \in {"set", "update"}

\* The engine raises MapFullError inside the write transaction: leaving the
\* with-block aborts the transaction.  __setitem__ and update catch the error;
\* __delitem__ and pop have no handler.
map_full(t) ==
  /\ pc[t] = "txn"
  /\ MayBeFull
  /\ Touches(call[t], store, consumed[t])
  /\ wtxn' = "none"
  /\ consumed' = [consumed EXCEPT ![t] = @ \/ call[t].op = "update"]
  /\ IF Catches(call[t])
     THEN /\ pc' = [pc EXCEPT ![t] = "caught"]
          /\ UNCHANGED <<rets, script>>
     ELSE Raise(t, "MapFullError")
  /\ UNCHANGED <<store, map_size, closed, closes, call, i, new_map_size, pre,
                 propagated, iters>>

\* new_map_size = self.map_size * 2
Doubled(size) == size * 2

read_map_size(t) ==
  /\ pc[t] = "caught"
  /\ new_map_size' = [new_map_size EXCEPT ![t] = Doubled(map_size)]
  /\ pc' = [pc EXCEPT ![t] = "resize"]
  /\ UNCHANGED <<store, map_size, closed, closes, wtxn, call, i, consumed, pre,
                 script, rets, propagated, iters>>

\* The loop of __setitem__ / update goes on while i < 12.
\* (LoopGoesOnInclusive: one attempt too many.)
LoopGoesOnInclusive(n) == n <= MaxAttempts
LoopGoesOn(n) == n < MaxAttempts

\* A cursor of an open read transaction points into the old mapping; after
\* the engine remaps, what it reads is undefined: any contents, the old ones
\* included.  g gives each open generator the contents its cursor now sees.
Remaps ==
  LET open == {n \in IterIds : iters[n].st = "open"}
  IN  {[n \in IterIds |-> IF n \in open THEN h[n] ELSE iters[n].snap] :
         h \in [open -> Stores]}
Remapped(g) == [n \in IterIds |-> [iters[n] EXCEPT !.snap = g[n]]]

\* self.env.set_mapsize(new_map_size).  The engine refuses (EINVAL) while a
\* write transaction is active; it does not look at read transactions.  It
\* takes any size that holds the committed pages, a smaller one than the
\* current included (the pages committed here always fit the opening size).
set_mapsize(t) ==
  /\ pc[t] = "resize"
  /\ IF wtxn # "none"
     THEN /\ Raise(t, "InvalidParameterError")
          /\ UNCHANGED <<map_size, i, iters>>
     ELSE /\ map_size' = new_map_size[t]
          /\ \E g \in Remaps : iters' = Remapped(g)
          /\ i' = [i EXCEPT ![t] = @ + 1]
          /\ pc' = [pc EXCEPT ![t] = IF LoopGoesOn(i[t] + 1) THEN "begin" ELSE "exit"]
          /\ UNCHANGED <<rets, script>>
  /\ UNCHANGED <<store, closed, closes, wtxn, call, new_map_size, consumed, pre,
                 propagated>>

\* exit("Failed to grow lmdb")
exit_failed(t) ==
  /\ pc[t] = "exit"
  /\ Raise(t, "SystemExit")
  /\ UNCHANGED <<store, map_size, closed, closes, wtxn, call, i, new_map_size,
                 consumed, pre, propagated, iters>>

\* Lmdb.close: env.close(); closing a closed environment does nothing more.
close(t) ==
  /\ pc[t] = "close"
  /\ closed' = TRUE
  /\ closes' = closes + 1
  /\ Return(t, "ok", NoVal)
  /\ UNCHANGED <<store, map_size, wtxn, call, i, new_map_size, consumed, pre,
                 propagated, iters>>

\* The close() calls __exit__ makes on a handle in state isClosed.
\* (ExitClosesIfOpen: an __exit__ that skips close() on a closed handle.)
ExitClosesIfOpen(isClosed) == IF isClosed THEN 0 ELSE 1
ExitCloses(isClosed) == 1

\* Lmdb.__exit__: runs when the with-block is left, normally (the script is
\* done) or by an exception; it calls close() and returns None, so the
\* exception goes on to the caller.
ScopeExit(t) ==
  /\ \/ pc[t] = "idle" /\ script[t] = <<>>
     \/ pc[t] = "raised"
  /\ closed' = TRUE
  /\ closes' = closes + ExitCloses(closed)
  /\ propagated' = IF pc[t] = "raised" THEN rets[t][Len(rets[t])].out ELSE "none"
  /\ pc' = [pc EXCEPT ![t] = "left"]
  /\ UNCHANGED <<store, map_size, wtxn, call, i, new_map_size, consumed, pre,
                 script, rets, iters>>

\* ------------------------------------------------------------ Spec: scoped use
\* One client, inside "with Lmdb.open(...) as db:", makes up to MaxCalls point
\* calls on a store with any contents, opened with a map that the engine can
\* double ScopeGrowth times.
PointCalls == SetCalls \cup GetCalls \cup LenCalls \cup DelCalls \cup PopCalls \cup CloseCalls

NoIter == [st |-> "unused", kind |-> "-", opened |-> EmptyStore,
           snap |-> EmptyStore, pos |-> 1, out |-> <<>>]

InitCommon ==
  /\ closed = FALSE
  /\ closes = 0
  /\ wtxn = "none"
  /\ call = [t \in Threads |-> NoCall]
  /\ i = [t \in Threads |-> 0]
  /\ new_map_size = [t \in Threads |-> 0]
  /\ consumed = [t \in Threads |-> FALSE]
  /\ pre = [t \in Threads |-> store]
  /\ rets = [t \in Threads |-> <<>>]
  /\ propagated = "none"
  /\ iters = [n \in IterIds |-> NoIter]

Init ==
  /\ store \in Stores
  /\ map_size = MaxMapSize \div Pow2(ScopeGrowth)
  /\ script \in {[t \in Threads |-> IF t = "t1" THEN q ELSE <<>>] :
                   q \in SeqsUpTo(PointCalls, MaxCalls)}
  /\ pc = [t \in Threads |-> IF t = "t1" THEN "idle" ELSE "off"]
  /\ InitCommon

Next ==
  \E t \in Threads :
    \/ Invoke(t)
    \/ getitem(t)
    \/ len(t)
    \/ begin_write(t)
    \/ commit(t)
    \/ map_full(t)
    \/ read_map_size(t)
    \/ set_mapsize(t)
    \/ close(t)
    \/ ScopeExit(t)

Spec == Init /\ [][Next]_vars

\* ------------------------------------------------------------- generators
Kinds == {"keys", "values", "items"}

\* The entries of s in the cursor's order (ascending keys), from key k on.
RECURSIVE Ordered(_, _)
Ordered(s, k) ==
  IF k \notin Keys THEN <<>>
  ELSE IF s[k] = NoVal THEN Ordered(s, k + 1)
       ELSE <<k>> \o Ordered(s, k + 1)

\* What keys() / values() / items() yields for the entry at key k.
Yield(kind, s, k) ==
  CASE kind = "keys" -> post_key(k)
    [] kind = "values" -> post_value(s[k])
    [] kind = "items" -> <<post_key(k), post_value(s[k])>>

\* Calling keys(), values() or items() only makes the generator object: no
\* line of its body has run yet and no transaction is open.
make_generator(n) ==
  /\ iters[n].st = "unused"
  /\ \E kind \in Kinds : iters' = [iters EXCEPT ![n].st = "new", ![n].kind = kind]
  /\ UNCHANGED <<store, map_size, closed, closes, wtxn, pc, call, i,
                 new_map_size, consumed, pre, script, rets, propagated>>

\* The generator after the read transaction was begun on contents s.
Begun(it, s) == [it EXCEPT !.st = "open", !.opened = s, !.snap = s, !.pos = 1]

\* One step of the cursor of generator it: the next entry is yielded, or the
\* loop ends, the with-block is left and the read transaction is over.
Advance(it) ==
  LET ks == Ordered(it.snap, 1)
  IN  IF it.pos <= Len(ks)
      THEN [it EXCEPT !.out = Append(@, Yield(it.kind, it.snap, ks[it.pos])),
                      !.pos = @ + 1]
      ELSE [it EXCEPT !.st = "done"]

\* next() on the generator: the first one begins the read transaction
\* (self.env.begin()) and opens the cursor, on the contents committed by then.
next_item(n) ==
  /\ iters[n].st \in {"new", "open"}
  /\ iters' = [iters EXCEPT ![n] =
                 IF iters[n].st = "new" THEN Advance(Begun(iters[n], store))
                 ELSE Advance(iters[n])]
  /\ UNCHANGED <<store, map_size, closed, closes, wtxn, pc, call, i,
                 new_map_size, consumed, pre, script, rets, propagated>>

\* ------------------------------------------------- SpecWrite: one set / update
\* One client makes one call of set or update on a store with any contents.
InitWrite ==
  /\ store \in Stores
  /\ map_size = InitMapSize
  /\ script \in {[t \in Threads |-> IF t = "t1" THEN <<c>> ELSE <<>>] :
                   c \in SetCalls \cup UpdateCalls}
  /\ pc = [t \in Threads |-> IF t = "t1" THEN "idle" ELSE "off"]
  /\ InitCommon

NextWrite ==
  \E t \in Threads :
    \/ Invoke(t)
    \/ begin_write(t)
    \/ commit(t)
    \/ map_full(t)
    \/ read_map_size(t)
    \/ set_mapsize(t)
    \/ exit_failed(t)

SpecWrite == InitWrite /\ [][NextWrite]_vars

\* ------------------------------------------- SpecSetSet: set, set again, get
SetSetScripts ==
  {<<Mk("set", k, v1, "-", EmptyStore, EmptyStore),
     Mk("len", 0, NoVal, "-", EmptyStore, EmptyStore),
     Mk("set", k, v2, "-", EmptyStore, EmptyStore),
     Mk("len", 0, NoVal, "-", EmptyStore, EmptyStore),
     Mk("get", k, NoVal, "-", EmptyStore, EmptyStore)>> :
       k \in Keys, v1 \in Vals, v2 \in Vals}
  \cup
  {<<Mk("set", k, v, "-", EmptyStore, EmptyStore),
     Mk("get", k, NoVal, "-", EmptyStore, EmptyStore)>> : k \in Keys, v \in Vals}

InitSetSet ==
  /\ store \in Stores
  /\ map_size = InitMapSize
  /\ script \in {[t \in Threads |-> IF t = "t1" THEN q ELSE <<>>] : q \in SetSetScripts}
  /\ pc = [t \in Threads |-> IF t = "t1" THEN "idle" ELSE "off"]
  /\ InitCommon

NextSetSet ==
  \E t \in Threads :
    \/ Invoke(t)
    \/ getitem(t)
    \/ len(t)
    \/ begin_write(t)
    \/ commit(t)
    \/ map_full(t)
    \/ read_map_size(t)
    \/ set_mapsize(t)
    \/ exit_failed(t)

SpecSetSet == InitSetSet /\ [][NextSetSet]_vars

\* ------------------------------------- SpecThreads: two threads, one handle
\* Two threads share the handle; each makes one call of set or update, while
\* passes over keys() / values() / items() are made and consumed.  The handle
\* was opened with a map that the engine can double ThreadGrowth times.
ThreadCalls ==
  SetCalls \cup {Mk("update", 0, NoVal, "mapping", [k \in Keys |-> v], EmptyStore) : v \in Vals}

InitThreads ==
  /\ store \in Stores
  /\ map_size = MaxMapSize \div Pow2(ThreadGrowth)
  /\ script \in [Threads -> {<<c>> : c \in ThreadCalls}]
  /\ pc = [t \in Threads |-> "idle"]
  /\ InitCommon

NextThreads ==
  \E t \in Threads :
    \/ Invoke(t)
    \/ begin_write(t)
    \/ commit(t)
    \/ map_full(t)
    \/ read_map_size(t)
    \/ set_mapsize(t)

SpecThreads == InitThreads /\ [][NextThreads]_vars

\* ------------------------------------ SpecIter: passes while a writer writes
\* Passes over keys() / values() / items() are made and consumed while
\* a thread makes one call of set or update on the same handle.
InitIter ==
  /\ store \in Stores
  /\ map_size = MaxMapSize \div Pow2(IterGrowth)
  /\ script \in {[t \in Threads |-> IF t = "t1" THEN <<c>> ELSE <<>>] : c \in ThreadCalls}
  /\ pc = [t \in Threads |-> IF t = "t1" THEN "idle" ELSE "off"]
  /\ InitCommon

NextIter ==
  \/ \E t \in Threads :
       \/ Invoke(t)
       \/ begin_write(t)
       \/ commit(t)
       \/ map_full(t)
       \/ read_map_size(t)
       \/ set_mapsize(t)
  \/ \E n \in IterIds :
       \/ make_generator(n)
       \/ next_item(n)

SpecIter == InitIter /\ [][NextIter]_vars

\* ================================================================= claims
\* The last entry of t's record, and whether t is between calls.
Last(t) == rets[t][Len(rets[t])]
Finished(t) == rets[t] # <<>> /\ pc[t] \in {"idle", "raised", "left"}
\* The number of explicit close() calls in a record.
ExplicitCloses(r) == Cardinality({j \in 1..Len(r) : r[j].call.op = "close"})

\* C1: when set or update returns normally after the engine refused the
\* first k attempts, the entries the call was given are in the store and the
\* map size is the initial one doubled k times.
C1_GrowthThenSuccess ==
  \A t \in Threads :
    (Finished(t) /\ Last(t).out = "ok" /\ Last(t).call.op \in {"set", "update"})
      => /\ store = Written(Last(t).call, pre[t], FALSE)
         /\ map_size = InitMapSize * Pow2(i[t])

\* C2: set and update never make a 13th attempt; when the engine refuses
\* all 12, the call ends in SystemExit ("Failed to grow lmdb"), never normally,
\* and the store is what it was when the call was made; and SystemExit comes
\* only after 12 refused attempts.
C2_ExhaustedIsFatal ==
  \A t \in Threads :
    /\ i[t] <= MaxAttempts
    /\ pc[t] \in {"begin", "txn", "caught", "resize"} => i[t] < MaxAttempts
    /\ i[t] = MaxAttempts =>
         /\ pc[t] \in {"exit", "raised"}
         /\ store = pre[t]
         /\ pc[t] = "raised" => Last(t).out = "SystemExit"
    /\ (Finished(t) /\ Last(t).out = "SystemExit") =>
         /\ i[t] = MaxAttempts
         /\ store = pre[t]

\* An update whose payload would have changed the store has been refused 12
\* times and ended in SystemExit.
C2_Witness ==
  /\ pc["t1"] = "raised"
  /\ Last("t1").out = "SystemExit"
  /\ Last("t1").call.op = "update"
  /\ i["t1"] = MaxAttempts
  /\ Written(Last("t1").call, pre["t1"], FALSE) # pre["t1"]

\* C3: at every moment of an update call, and after it, the store holds
\* either what it held when the call was made or that with every entry of the
\* source and every keyword pair written.
C3_UpdateAllOrNothing ==
  \A t \in Threads :
    call[t].op = "update" =>
      store \in {pre[t], Written(call[t], pre[t], FALSE)}

\* C4: no call of set, update, delete or pop ends with the engine's
\* MapFullError.
C4_SpaceExhaustionNeverSurfaces ==
  \A t \in Threads : \A j \in 1..Len(rets[t]) :
    rets[t][j].call.op \in WriteOps => rets[t][j].out # "MapFullError"

\* C5: the map size never decreases, and every set_mapsize the handle makes
\* sets it to twice the value it had immediately before.
C5_MapSizeDoubles ==
  [][/\ map_size' >= map_size
     /\ \A t \in Threads :
          (pc[t] = "resize" /\ pc'[t] \in {"begin", "exit"}) =>
            map_size' = 2 * map_size]_vars

\* C6: get(k) directly after set(k, v) returns v; after set(k, v1), length(),
\* set(k, v2), length(), get(k), the get returns v2 and both lengths are equal.
C6_SetThenGet ==
  \A t \in Threads :
    LET r == rets[t]
    IN  /\ \A j \in 2..Len(r) :
             (/\ r[j].call.op = "get"
              /\ r[j - 1].call.op = "set"
              /\ r[j - 1].out = "ok"
              /\ r[j].call.key = r[j - 1].call.key)
               => r[j].out = "ok" /\ r[j].val = r[j - 1].call.val
        /\ (Len(r) = 5 /\ r[1].out = "ok" /\ r[3].out = "ok") =>
             /\ r[5].out = "ok"
             /\ r[5].val = r[3].call.val
             /\ r[2].out = "ok" /\ r[4].out = "ok"
             /\ r[2].val = r[4].val

\* The five calls are done, the two sets wrote different values, both needed
\* a growth step or more, and the store held another key before.
C6_Witness ==
  /\ Len(rets["t1"]) = 5
  /\ rets["t1"][1].call.val # rets["t1"][3].call.val
  /\ rets["t1"][5].val = rets["t1"][3].call.val
  /\ rets["t1"][4].val = 2
  /\ map_size >= 4 * InitMapSize

\* C7: on an open handle, delete and pop of an absent key end without
\* error, pop returning its default, and leave the store as it was; pop of a
\* present key removes it and returns its value; a delete of the key just
\* deleted changes nothing.
C7_AbsenceTolerant ==
  \A t \in Threads :
    (/\ Finished(t)
     /\ Last(t).call.op \in {"del", "pop"}
     /\ ExplicitCloses(rets[t]) = 0) =>
      LET c == Last(t).call
          was == pre[t][pre_key(c.key)]
      IN  /\ was = NoVal =>
               /\ Last(t).out = "ok"
               /\ store = pre[t]
               /\ c.op = "pop" => Last(t).val = c.val
          /\ (was # NoVal /\ c.op = "pop") =>
               /\ Last(t).out = "ok"
               /\ Last(t).val = post_value(was)
               /\ store = Delete(pre[t], pre_key(c.key))
          /\ (/\ c.op = "del"
              /\ Len(rets[t]) >= 2
              /\ rets[t][Len(rets[t]) - 1].call = c
              /\ rets[t][Len(rets[t]) - 1].out = "ok") =>
               /\ Last(t).out = "ok"
               /\ store = pre[t]

\* What a pass of the given kind over contents s yields, in order.
Expected(kind, s) ==
  LET ks == Ordered(s, 1)
  IN  [j \in 1..Len(ks) |-> Yield(kind, s, ks[j])]

\* C8: every pass yields, each once, the entries the store held when the
\* pass's read transaction was begun, whatever other passes and writes do
\* meanwhile: what it has yielded so far is the start of that, and all of
\* that when the pass has ended.
C8_PassesAreSnapshots ==
  \A n \in IterIds :
    iters[n].st \in {"open", "done"} =>
      LET want == Expected(iters[n].kind, iters[n].opened)
          got == iters[n].out
      IN  /\ Len(got) <= Len(want)
          /\ \A j \in 1..Len(got) : got[j] = want[j]
          /\ iters[n].st = "done" => Len(got) = Len(want)

\* C9 as stated: after the with-block close() has run exactly once, and the
\* error raised inside, if any, has gone on to the caller.
C9_ClosedExactlyOnce ==
  pc["t1"] = "left" =>
    /\ closes = 1
    /\ propagated = (IF rets["t1"] = <<>> \/ Last("t1").out = "ok"
                     THEN "none" ELSE Last("t1").out)

\* C9 amended: leaving the with-block runs close() exactly once, so close()
\* has run once more than the block called it itself; the handle is closed
\* and the error raised inside, if any, has gone on to the caller.
C9_ExitClosesOnce ==
  /\ pc["t1"] # "left" => closes = ExplicitCloses(rets["t1"])
  /\ pc["t1"] = "left" =>
       /\ closed
       /\ closes = ExplicitCloses(rets["t1"]) + 1
       /\ propagated = (IF rets["t1"] = <<>> \/ Last("t1").out = "ok"
                        THEN "none" ELSE Last("t1").out)

\* The block closed the handle itself, then a call on the closed handle
\* raised, and the block was left with that error.
C9_Witness ==
  /\ pc["t1"] = "left"
  /\ closes = 2
  /\ propagated = "Error"

\* C10: whenever set or update is about to call set_mapsize, no transaction
\* of the handle is open: no write transaction of any thread and no read
\* transaction of a pass that has not ended.
C10_ResizeOutsideTransactions ==
  \A t \in Threads :
    pc[t] = "resize" =>
      /\ wtxn = "none"
      /\ \A n \in IterIds : iters[n].st # "open"

====
